---- MODULE Spec2Model ----
(***************************************************************************)
(* A model of bla_gpt/megabyte.py: the MegaByte hierarchical model's       *)
(* forward pass, its empty-input path, the generation driver and the       *)
(* token_shift helper.                                                     *)
(*                                                                         *)
(* Tensors are modelled by their shape and, where the contents matter, by  *)
(* the contents of one batch row in row-major order (every batch row goes  *)
(* through the same operations).  Floating-point activations are modelled  *)
(* by their provenance: a feature is the set of flat id positions          *)
(* (1-based) it was computed from; a constant or a learned parameter has   *)
(* the empty provenance.                                                   *)
(***************************************************************************)
EXTENDS Integers, Sequences, FiniteSets, TLC

(* ------------------------------ bounds --------------------------------- *)

\* number of stages of a configuration: len(max_seq_len) in 1..MaxStages
MaxStages == 3
\* every entry of max_seq_len is in 1..MaxLen
MaxLen == 3
\* the capacity of a configuration, the product of max_seq_len, is at most MaxTotal
MaxTotal == 8
\* vocabulary size of the model (config.num_tokens, scaled down)
num_tokens == 3
\* rows of every tensor of a call (ids.shape[0])
Batch == 2
\* layers of every stage's Transformer (config.depth, scaled down)
Depth == 1
\* features of a position inside forward (config.dim, scaled down)
Width == 2
\* token_shift on its own: positions and features of the input
MaxN == 3
MaxW == 3
\* forward calls a caller makes in a row on the same tensors
MaxCalls == 2

(* ------------------------------ helpers -------------------------------- *)

\* config.pad_id: the last id of the vocabulary (50304 of 50305)
pad_id == num_tokens - 1

RECURSIVE reduce_mult(_)
reduce_mult(nums) ==
    IF nums = <<>> THEN 1 ELSE Head(nums) * reduce_mult(Tail(nums))

\* remainder_to_mult without the outer modulo: a whole block for aligned lengths
remainder_to_mult_NoWrap(num, mult) == mult - (num % mult)

remainder_to_mult(num, mult) == (mult - (num % mult)) % mult

\* s[from:] for a 1-based sequence s
From(s, from) == SubSeq(s, from, Len(s))

(* ------------------------------ tensors -------------------------------- *)

NoTensor == [shape |-> <<>>, data |-> <<>>]

numel(t) == reduce_mult(t.shape)

ndim(t) == Len(t.shape)

\* elements of one slice along dimension 1 (the first dimension after batch)
Inner(t) == reduce_mult(From(t.shape, 3))

\* t[:, :-1]
DropLast(t) ==
    LET n == t.shape[2]
        m == IF n = 0 THEN 0 ELSE n - 1
    IN  [shape |-> [t.shape EXCEPT ![2] = m],
         data  |-> SubSeq(t.data, 1, m * Inner(t))]

\* t[:, -1:]
LastSlice(t) ==
    LET n == t.shape[2]
    IN  IF n = 0 THEN [shape |-> t.shape, data |-> <<>>]
        ELSE [shape |-> [t.shape EXCEPT ![2] = 1],
              data  |-> SubSeq(t.data, (n - 1) * Inner(t) + 1, n * Inner(t))]

\* t[:, :-1] = t[:, 1:], element by element in ascending order: each source
\* element is read before the copy reaches it, so the rows move left by one
\* and the last row keeps its old contents
ShiftAssign(t) ==
    LET n == t.shape[2]
        k == IF n = 0 THEN 0 ELSE (n - 1) * Inner(t)
    IN  [t EXCEPT !.data =
            [i \in 1..Len(t.data) |->
                IF i <= k THEN t.data[i + Inner(t)] ELSE t.data[i]]]

\* torch.cat((a, b), dim=-1) is defined when all other dimensions agree
CatOK(a, b) ==
    /\ ndim(a) = ndim(b)
    /\ \A i \in 1..(ndim(a) - 1) : a.shape[i] = b.shape[i]

Cat(a, b) ==
    LET r  == ndim(a)
        la == a.shape[r]
        lb == b.shape[r]
        rows == reduce_mult(SubSeq(a.shape, 2, r - 1))
    IN  [shape |-> [a.shape EXCEPT ![r] = la + lb],
         data  |-> [i \in 1..(rows * (la + lb)) |->
                      LET row == (i - 1) \div (la + lb)
                          col == (i - 1) % (la + lb)
                      IN  IF col < la THEN a.data[row * la + col + 1]
                          ELSE b.data[row * lb + (col - la) + 1]]]

\* F.pad without value=: the padding is zeros
PadRight_Zeros(t, padding, v) ==
    [shape |-> [t.shape EXCEPT ![2] = t.shape[2] + padding],
     data  |-> t.data \o [i \in 1..padding |-> 0]]

\* F.pad(ids, (0, padding), value=v) of a flat (batch, seq) tensor
PadRight(t, padding, v) ==
    [shape |-> [t.shape EXCEPT ![2] = t.shape[2] + padding],
     data  |-> t.data \o [i \in 1..padding |-> v]]

(* ------------------------ activations (provenance) --------------------- *)

\* a position whose features carry no id: a start token, F.pad's zeros
ZeroCell == [f \in 1..Width |-> {}]

AllDeps(cell) == UNION {cell[f] : f \in 1..Len(cell)}

\* a per-position map that reads every feature: nn.Linear, RMSNorm, LayerNorm
Mix(cell) == [f \in 1..Len(cell) |-> AllDeps(cell)]

\* elementwise a + b
AddCells(a, b) == [f \in 1..Len(a) |-> a[f] \cup b[f]]

AddSeq(s, u) == [i \in 1..Len(s) |-> AddCells(s[i], u[i])]

\* v.chunk(2, dim=-1) of one position: chunks of ceil(w / 2) features
chunk(v) ==
    LET w  == Len(v)
        sz == (w + 1) \div 2
    IN  IF w <= sz THEN <<v>>
        ELSE <<SubSeq(v, 1, sz), SubSeq(v, sz + 1, w)>>

\* the unpacking "t, t_shift = t.chunk(2, dim=-1)" needs exactly two chunks
chunk_unpacks(t) == \A i \in 1..Len(t) : Len(chunk(t[i])) = 2

\* token_shift that rolls the sequence instead of padding it: the first
\* position gets the last position's second chunk
token_shift_Roll(t) ==
    [i \in 1..Len(t) |->
        chunk(t[i])[1] \o chunk(t[IF i = 1 THEN Len(t) ELSE i - 1])[2]]

\* t: the positions of one sequence, each a tuple of features
token_shift(t) ==
    [i \in 1..Len(t) |->
        chunk(t[i])[1] \o
        (IF i = 1 THEN [f \in 1..Len(chunk(t[i])[2]) |-> {}]
                  ELSE chunk(t[i - 1])[2])]

\* attention without the causal mask: every position reads all positions
Attention_NoMask(s) ==
    [i \in 1..Len(s) |->
        LET d == UNION {AllDeps(s[j]) : j \in 1..Len(s)}
        IN  [f \in 1..Len(s[i]) |-> d]]

\* Attention.forward with Attend(causal=True): position i reads positions <= i
Attention(s) ==
    [i \in 1..Len(s) |->
        LET d == UNION {AllDeps(s[j]) : j \in 1..i}
        IN  [f \in 1..Len(s[i]) |-> d]]

FeedForward(s) == [i \in 1..Len(s) |-> Mix(s[i])]

TransformerLayer(s) ==
    LET a == AddSeq(Attention(token_shift(s)), s)
    IN  AddSeq(FeedForward(token_shift(a)), a)

RECURSIVE TransformerLayers(_, _)
TransformerLayers(s, layers) ==
    IF layers = 0 THEN s ELSE TransformerLayers(TransformerLayer(s), layers - 1)

\* Transformer.forward: the layers, then the final RMSNorm
Transformer(s) == FeedForward(TransformerLayers(s, Depth))

\* to_next_transformer_projections[i] for a stage that has a next stage:
\* every position is projected and split into next_seq_len positions
proj(positions, next_seq_len) ==
    [q \in 1..Len(positions) |-> [k \in 1..next_seq_len |-> Mix(positions[q])]]

\* attended[..., 1:, :] of one group: the start position dropped
ProjInput_DropStart(group) == SubSeq(group, 2, Len(group))

\* attended[..., :-1, :] of one group
ProjInput(group) == SubSeq(group, 1, Len(group) - 1)

RECURSIVE Flatten(_)
Flatten(groups) ==
    IF groups = <<>> THEN <<>> ELSE Head(groups) \o Flatten(Tail(groups))

\* token_embs applied to ids of shape (batch, d0, m1, ...): for stage i, one
\* position per block of the product of shape[i+2:] consecutive ids
EmbedStage(shape, i) ==
    LET p == reduce_mult(SubSeq(shape, 2, i + 1))
        b == reduce_mult(From(shape, i + 2))
    IN  [q \in 1..p |-> [f \in 1..Width |-> ((q - 1) * b + 1)..(q * b)]]

(* ------------------------------- state --------------------------------- *)

VARIABLES
    max_seq_len,            \* config.max_seq_len
    pc,                     \* position of the running call
    err,                    \* the exception that ended the call, or "none"
    x,                      \* the caller's ids tensor (forward writes to it)
    ids_at_call,            \* the contents of x when forward was called
    targets,                \* the caller's targets tensor
    targets_at_call,        \* the contents of targets when forward was called
    aliased,                \* targets shares x's storage, one element on
    calls,                  \* forward calls made on these tensors
    first_ids,              \* the ids the first of them went on with
    return_loss,
    ids,                    \* forward's local ids
    flattened_dims,
    prec_dims,              \* ids.shape[1:] after the reshape
    seq_len,
    padding,
    tokens_at_stages,
    stage,                  \* index of the stage loop (1-based)
    prev_stage_tokens_repr,
    attended,
    proj_in,                \* what the stage handed to its projector
    logits,
    start_tokens,
    preds,
    labels,
    scored,                 \* positions cross_entropy takes the loss over
    ret,                    \* the value the call returned
    prime,                  \* generate's argument
    seq,                    \* generate's sequence
    t_in,                   \* token_shift's argument
    t_out                   \* token_shift's result

vars == <<max_seq_len, pc, err, x, ids_at_call, targets, targets_at_call,
          aliased, calls, first_ids, return_loss, ids, flattened_dims,
          prec_dims, seq_len, padding, tokens_at_stages, stage, prev_stage_tokens_repr,
          attended, proj_in, logits, start_tokens, preds, labels, scored,
          ret, prime, seq, t_in, t_out>>

config_vars == <<max_seq_len>>
call_vars == <<x, ids_at_call, targets, targets_at_call, aliased, calls,
               first_ids, return_loss>>
shape_vars == <<flattened_dims, prec_dims, seq_len, padding>>
stage_vars == <<tokens_at_stages, stage, prev_stage_tokens_repr, attended, proj_in>>
out_vars == <<logits, start_tokens, preds, labels, scored>>
gen_vars == <<prime, seq>>
shift_vars == <<t_in, t_out>>

stages == Len(max_seq_len)

\* prime=None
NoPrime == [given |-> FALSE, t |-> NoTensor]

NoRet == [kind |-> "none", shape |-> <<>>, cells |-> <<>>]

(* --------------------------- configurations ---------------------------- *)

\* max_seq_len tuples of 1..MaxStages entries, each in 1..MaxLen
Configs ==
    {c \in UNION {[1..n -> 1..MaxLen] : n \in 1..MaxStages} :
        reduce_mult(c) <= MaxTotal}

(* ------------------------------ inputs --------------------------------- *)

\* ids that are not pad_id and differ between neighbouring positions
Ramp(i) == (i - 1) % (num_tokens - 1)

\* a tensor of the shape (one batch row of contents) with pad_id at position k
RampTensor(shape, k) ==
    [shape |-> shape,
     data  |-> [i \in 1..reduce_mult(Tail(shape)) |->
                  IF i = k THEN pad_id ELSE Ramp(i)]]

ConstTensor(shape, v) ==
    [shape |-> shape, data |-> [i \in 1..reduce_mult(Tail(shape)) |-> v]]

total_seq_len == reduce_mult(max_seq_len)

\* flat (batch, L) ids, up to one position past the model's capacity
FlatIds ==
    {RampTensor(<<Batch, L>>, k) : L \in 0..(total_seq_len + 1), k \in 0..1}
    \cup {RampTensor(<<Batch, L>>, L) : L \in 0..(total_seq_len + 1)}

\* nested (batch, d0, d1, ...) ids: d0 up to one past max_seq_len[0], the
\* other dimensions as configured or (e = 1) the last one too long by one
NestedIds ==
    IF stages = 1 THEN {}
    ELSE {RampTensor(<<Batch, d0>> \o
                     [i \in 1..(stages - 1) |->
                        max_seq_len[i + 1] + (IF i = stages - 1 THEN e ELSE 0)],
                     0) :
            d0 \in 0..(max_seq_len[1] + 1), e \in 0..1}

\* the targets a caller may pass with ids a: flat targets of no or one
\* column, targets of a's shape, and targets of a's rank with an empty last
\* dimension
TargetsFor(a) ==
    {ConstTensor(<<Batch, 0>>, 0), ConstTensor(<<Batch, 1>>, 1),
     ConstTensor(<<Batch, 1>>, pad_id)}
    \cup (IF ndim(a) > 2
          THEN {ConstTensor(a.shape, 1),
                ConstTensor([a.shape EXCEPT ![2] = 1, ![ndim(a)] = 0], 1),
                ConstTensor([a.shape EXCEPT ![2] = 0, ![ndim(a)] = 0], 1)}
          ELSE IF stages > 1
          THEN {ConstTensor(<<Batch, 1>> \o Tail(max_seq_len), 1)}
          ELSE {})

(* ------------------------------- Init ---------------------------------- *)

Blank ==
    /\ pc = "idle"
    /\ err = "none"
    /\ x = NoTensor
    /\ ids_at_call = NoTensor
    /\ targets = NoTensor
    /\ targets_at_call = NoTensor
    /\ aliased = FALSE
    /\ calls = 0
    /\ first_ids = NoTensor
    /\ return_loss = TRUE
    /\ ids = NoTensor
    /\ flattened_dims = FALSE
    /\ prec_dims = <<>>
    /\ seq_len = 0
    /\ padding = 0
    /\ tokens_at_stages = <<>>
    /\ stage = 0
    /\ prev_stage_tokens_repr = <<>>
    /\ attended = <<>>
    /\ proj_in = <<>>
    /\ logits = <<>>
    /\ start_tokens = {}
    /\ preds = <<>>
    /\ labels = <<>>
    /\ scored = {}
    /\ ret = NoRet
    /\ prime = NoPrime
    /\ seq = NoTensor
    /\ t_out = <<>>

\* MegaByte.__init__: a model of any configuration within the bounds
Init ==
    /\ max_seq_len \in Configs
    /\ Blank
    /\ t_in = <<>>

Raise(e) ==
    /\ pc' = "raised"
    /\ err' = e

(* ------------------------- MegaByte.forward ---------------------------- *)

\* the locals of a call before it has run
FreshLocals ==
    /\ ids' = NoTensor
    /\ flattened_dims' = FALSE
    /\ prec_dims' = <<>>
    /\ seq_len' = 0
    /\ padding' = 0
    /\ tokens_at_stages' = <<>>
    /\ stage' = 0
    /\ prev_stage_tokens_repr' = <<>>
    /\ attended' = <<>>
    /\ proj_in' = <<>>
    /\ logits' = <<>>
    /\ start_tokens' = {}
    /\ preds' = <<>>
    /\ labels' = <<>>
    /\ scored' = {}
    /\ ret' = NoRet

\* forward(ids, targets, return_loss) is called
Call ==
    /\ pc = "idle"
    /\ \E a \in FlatIds \cup NestedIds, rl \in BOOLEAN :
         \E tg \in TargetsFor(a) :
            /\ x' = a
            /\ ids_at_call' = a
            /\ targets' = tg
            /\ targets_at_call' = tg
            /\ return_loss' = rl
    /\ aliased' = FALSE
    /\ calls' = 1
    /\ first_ids' = NoTensor
    /\ pc' = "reconstruct"
    /\ err' = "none"
    /\ FreshLocals
    /\ UNCHANGED <<config_vars, gen_vars, shift_vars>>

\* lines 676-679: the caller cuts ids and targets out of one tensor,
\* x = base[:, :-1] and y = base[:, 1:], and calls model(x, y)
CallShared ==
    /\ pc = "idle"
    /\ \E base \in FlatIds :
         /\ base.shape[2] >= 2
         /\ x' = DropLast(base)
         /\ ids_at_call' = DropLast(base)
         /\ targets' = [shape |-> [base.shape EXCEPT ![2] = base.shape[2] - 1],
                        data  |-> Tail(base.data)]
         /\ targets_at_call' =
               [shape |-> [base.shape EXCEPT ![2] = base.shape[2] - 1],
                data  |-> Tail(base.data)]
    /\ return_loss' = TRUE
    /\ aliased' = TRUE
    /\ calls' = 1
    /\ first_ids' = NoTensor
    /\ pc' = "reconstruct"
    /\ err' = "none"
    /\ FreshLocals
    /\ UNCHANGED <<config_vars, gen_vars, shift_vars>>

\* the caller calls forward again with the same tensors and arguments
CallAgain ==
    /\ pc = "done"
    /\ x # NoTensor
    /\ calls < MaxCalls
    /\ ids_at_call' = x
    /\ targets_at_call' = targets
    /\ calls' = calls + 1
    /\ pc' = "reconstruct"
    /\ err' = "none"
    /\ FreshLocals
    /\ UNCHANGED <<config_vars, x, targets, aliased, first_ids, return_loss,
                   gen_vars, shift_vars>>

\* the contents of a tensor that starts one element into the storage of a
\* flat tensor of contents d and ends one element past it, at an element
\* of value last
SharedView(d, last) == IF d = <<>> THEN <<last>> ELSE Tail(d) \o <<last>>

\* lines 537-539: ids = ids[:, :-1] is a view of the caller's tensor, the
\* assignment ids[:, :-1] = ids[:, 1:] writes through it, and the last
\* slice of targets is appended
Reconstruct ==
    /\ pc = "reconstruct"
    /\ LET view == ShiftAssign(DropLast(x))
           tail == LastSlice(targets)
           written == view.data \o From(x.data, Len(view.data) + 1)
       IN  /\ x' = [x EXCEPT !.data = written]
           /\ targets' =
                 IF aliased
                 THEN [targets EXCEPT !.data =
                         SharedView(written, targets.data[Len(targets.data)])]
                 ELSE targets
           /\ IF CatOK(view, tail)
              THEN /\ ids' = Cat(view, tail)
                   /\ first_ids' = IF calls = 1 THEN Cat(view, tail)
                                   ELSE first_ids
                   /\ pc' = "check"
                   /\ err' = "none"
              ELSE /\ ids' = view
                   /\ first_ids' = first_ids
                   /\ Raise("RuntimeError")
    /\ UNCHANGED <<config_vars, ids_at_call, targets_at_call, aliased, calls,
                   return_loss, shape_vars, stage_vars, out_vars, ret,
                   gen_vars, shift_vars>>

\* MegaByte.forward_empty: every stage runs its start token alone
RECURSIVE forward_empty(_, _)
forward_empty(i, prev) ==
    LET tokens == IF prev = <<>> THEN <<ZeroCell>>
                  ELSE AddSeq(<<ZeroCell>>, SubSeq(prev[1], 1, 1))
        out == Transformer(tokens)
    IN  IF i = stages THEN [j \in 1..Len(out) |-> AllDeps(out[j])]
        ELSE forward_empty(i + 1, proj(out, max_seq_len[i + 1]))

\* lines 541-547: the rank assertion and the empty input
CheckEmpty ==
    /\ pc = "check"
    /\ IF ndim(ids) \notin {2, stages + 1}
       THEN /\ Raise("AssertionError")
            /\ UNCHANGED <<flattened_dims, ret>>
       ELSE /\ flattened_dims' = (ndim(ids) = 2)
            /\ err' = "none"
            /\ IF numel(ids) = 0
               THEN /\ ret' = [kind |-> "logits",
                               shape |-> <<ids.shape[1], 1, num_tokens>>,
                               cells |-> forward_empty(1, <<>>)]
                    /\ pc' = "done"
               ELSE /\ ret' = ret
                    /\ pc' = IF ndim(ids) = 2 THEN "pad" ELSE "validate"
    /\ UNCHANGED <<config_vars, call_vars, ids, prec_dims, seq_len, padding,
                   stage_vars, out_vars, gen_vars, shift_vars>>

\* lines 549-558: a flat input is padded with pad_id to a multiple of the
\* product of max_seq_len[1:] and reshaped to (batch, -1, *max_seq_len[1:])
PadReshape ==
    /\ pc = "pad"
    /\ LET multiple_of == reduce_mult(Tail(max_seq_len))
           pad == remainder_to_mult(ids.shape[2], multiple_of)
           padded == PadRight(ids, pad, pad_id)
       IN  /\ seq_len' = ids.shape[2]
           /\ padding' = pad
           /\ IF padded.shape[2] % multiple_of = 0
              THEN /\ ids' = [padded EXCEPT !.shape =
                                <<Batch, padded.shape[2] \div multiple_of>>
                                \o Tail(max_seq_len)]
                   /\ pc' = "validate"
                   /\ err' = "none"
              ELSE /\ ids' = padded
                   /\ Raise("RuntimeError")
    /\ UNCHANGED <<config_vars, call_vars, flattened_dims, prec_dims,
                   stage_vars, out_vars, ret, gen_vars, shift_vars>>

\* lines 560-569: the two assertions on the nested shape
Validate ==
    /\ pc = "validate"
    /\ prec_dims' = Tail(ids.shape)
    /\ IF /\ ids.shape[2] <= max_seq_len[1]
          /\ Tail(Tail(ids.shape)) = Tail(max_seq_len)
       THEN /\ pc' = "embed"
            /\ err' = "none"
       ELSE Raise("AssertionError")
    /\ UNCHANGED <<config_vars, call_vars, ids, flattened_dims, seq_len,
                   padding, stage_vars, out_vars, ret, gen_vars, shift_vars>>

\* lines 574-595: one token tensor per stage, coarsest first; the loop
\* leaves ids flattened to (batch, n)
Embed ==
    /\ pc = "embed"
    /\ tokens_at_stages' = [i \in 1..stages |-> EmbedStage(ids.shape, i)]
    /\ ids' = [ids EXCEPT !.shape =
                 IF stages = 1 THEN ids.shape
                 ELSE <<Batch, reduce_mult(Tail(ids.shape))>>]
    /\ stage' = 1
    /\ prev_stage_tokens_repr' = <<>>
    /\ pc' = "stages"
    /\ UNCHANGED <<config_vars, err, call_vars, shape_vars, attended, proj_in,
                   out_vars, ret, gen_vars, shift_vars>>

\* the positions of one group of the stage: prec_dims[0] for the first
\* stage, max_seq_len[i] for the others
GroupLen(i) == prec_dims[i]

\* lines 609-630: the start token is prepended to every group, and the
\* previous stage's representation, padded by one zero position, is added
StageInput(i, g) ==
    LET n == GroupLen(i)
        own == <<ZeroCell>> \o SubSeq(tokens_at_stages[i], (g - 1) * n + 1, g * n)
    IN  IF i = 1 THEN own
        ELSE AddSeq(own, <<ZeroCell>> \o prev_stage_tokens_repr[g])

\* lines 603-638: one iteration of the stage loop
StageStep ==
    /\ pc = "stages"
    /\ stage <= stages
    /\ LET n == GroupLen(stage)
           groups == Len(tokens_at_stages[stage]) \div n
           att == [g \in 1..groups |-> Transformer(StageInput(stage, g))]
           handed == [g \in 1..groups |-> ProjInput(att[g])]
       IN  /\ attended' = att
           /\ proj_in' = handed
           /\ prev_stage_tokens_repr' =
                 IF stage < stages
                 THEN proj(Flatten(handed), max_seq_len[stage + 1])
                 ELSE handed
    /\ stage' = stage + 1
    /\ pc' = IF stage = stages THEN "logits" ELSE "stages"
    /\ UNCHANGED <<config_vars, err, call_vars, ids, shape_vars,
                   tokens_at_stages, out_vars, ret, gen_vars, shift_vars>>

\* logits[..., 1:, :] of one group
DropStart(group) == SubSeq(group, 2, Len(group))

\* lines 641-646: the logits of every position, the logits of the very
\* first position set aside, and the start position of every group dropped
ToLogits ==
    /\ pc = "logits"
    /\ LET full == [g \in 1..Len(attended) |->
                      [k \in 1..Len(attended[g]) |-> AllDeps(attended[g][k])]]
       IN  /\ start_tokens' = full[1][1]
           /\ logits' = [g \in 1..Len(full) |-> DropStart(full[g])]
    /\ pc' = "return"
    /\ UNCHANGED <<config_vars, err, call_vars, ids, shape_vars, stage_vars,
                   preds, labels, scored, ret, gen_vars, shift_vars>>

\* logits[:, :n] of flattened logits
Trim(flat, n) == SubSeq(flat, 1, IF n < Len(flat) THEN n ELSE Len(flat))

\* lines 648-653: without the loss, flat inputs get flat logits cut to seq_len
ReturnLogits ==
    /\ pc = "return"
    /\ ~return_loss
    /\ ret' = IF flattened_dims
              THEN LET cut == Trim(Flatten(logits), seq_len)
                   IN  [kind |-> "logits",
                        shape |-> <<Batch, Len(cut), num_tokens>>,
                        cells |-> cut]
              ELSE [kind |-> "logits",
                    shape |-> <<Batch>> \o prec_dims \o <<num_tokens>>,
                    cells |-> Flatten(logits)]
    /\ pc' = "done"
    /\ UNCHANGED <<config_vars, err, call_vars, ids, shape_vars, stage_vars,
                   out_vars, gen_vars, shift_vars>>

\* preds[..., :-1]
AllButLast(s) == SubSeq(s, 1, Len(s) - 1)

\* F.cross_entropy(.., ignore_index): the positions that enter the loss
cross_entropy(lbls, ignore_index) ==
    {j \in 1..Len(lbls) : lbls[j] # ignore_index}

\* lines 655-662: the first logits are put back in front, and the loss is
\* taken between all predictions but the last and the flattened ids
ReturnLoss ==
    /\ pc = "return"
    /\ return_loss
    /\ LET full == <<start_tokens>> \o Flatten(logits)
           p == AllButLast(full)
       IN  /\ preds' = p
           /\ labels' = ids.data
           /\ IF Len(p) = Len(ids.data)
              THEN /\ scored' = cross_entropy(ids.data, pad_id)
                   /\ ret' = [kind |-> "pair",
                              shape |-> <<Batch, Len(full), num_tokens>>,
                              cells |-> full]
                   /\ pc' = "done"
                   /\ err' = "none"
              ELSE /\ scored' = {}
                   /\ ret' = ret
                   /\ Raise("ValueError")
    /\ UNCHANGED <<config_vars, call_vars, ids, shape_vars, stage_vars,
                   logits, start_tokens, gen_vars, shift_vars>>

Forward ==
    \/ Call
    \/ CallShared
    \/ CallAgain
    \/ Reconstruct
    \/ CheckEmpty
    \/ PadReshape
    \/ Validate
    \/ Embed
    \/ StageStep
    \/ ToLogits
    \/ ReturnLogits
    \/ ReturnLoss

(* ------------------------- MegaByte.generate --------------------------- *)

\* the primes a caller may pass: none, or a flat (batch, n) tensor
Primes ==
    {NoPrime} \cup
    {[given |-> TRUE, t |-> RampTensor(<<Batch, n>>, 0)] :
        n \in 0..(total_seq_len + 1)}

\* lines 492-504: generate(prime) is called; without a prime the sequence
\* starts empty
Generate ==
    /\ pc = "idle"
    /\ \E p \in Primes :
         /\ prime' = p
         /\ seq' = IF p.given THEN p.t ELSE ConstTensor(<<Batch, 0>>, 0)
    /\ pc' = "generate"
    /\ err' = "none"
    /\ FreshLocals
    /\ UNCHANGED <<config_vars, call_vars, shift_vars>>

\* lines 506-512: while tokens are missing, the loop body starts with the
\* call self.forward(seq); forward's parameters ids and targets have no
\* default (line 533), so the call with one argument raises TypeError
\* before forward runs.  With no token missing the loop is skipped and the
\* sequence is reshaped and returned
GenerateStep ==
    /\ pc = "generate"
    /\ IF total_seq_len - seq.shape[2] > 0
       THEN /\ Raise("TypeError")
            /\ ret' = ret
       ELSE IF numel(seq) = Batch * total_seq_len
       THEN /\ ret' = [kind |-> "tokens",
                       shape |-> <<Batch>> \o max_seq_len,
                       cells |-> seq.data]
            /\ pc' = "done"
            /\ err' = "none"
       ELSE /\ ret' = ret
            /\ Raise("RuntimeError")
    /\ UNCHANGED <<config_vars, call_vars, ids, shape_vars, stage_vars,
                   out_vars, gen_vars, shift_vars>>

\* the call is over: control is back with the caller
Finish ==
    /\ pc \in {"done", "raised"}
    /\ pc' = "idle"
    /\ err' = "none"
    /\ x' = NoTensor
    /\ ids_at_call' = NoTensor
    /\ targets' = NoTensor
    /\ targets_at_call' = NoTensor
    /\ aliased' = FALSE
    /\ calls' = 0
    /\ first_ids' = NoTensor
    /\ return_loss' = TRUE
    /\ prime' = NoPrime
    /\ seq' = NoTensor
    /\ FreshLocals
    /\ UNCHANGED <<config_vars, shift_vars>>

(* ----------------------------- token_shift ----------------------------- *)

\* the values of a feature: 0, written {}, and one other value
FeatureValues == {{}, {1}}

ShiftInputs ==
    UNION {[1..n -> [1..w -> FeatureValues]] : n \in 1..MaxN, w \in 1..MaxW}

InitShift ==
    /\ max_seq_len = <<MaxLen>>
    /\ Blank
    /\ t_in \in ShiftInputs

\* token_shift(t), lines 222-225
ApplyTokenShift ==
    /\ pc = "idle"
    /\ IF chunk_unpacks(t_in)
       THEN /\ t_out' = token_shift(t_in)
            /\ pc' = "done"
            /\ err' = "none"
       ELSE /\ t_out' = t_out
            /\ Raise("ValueError")
    /\ UNCHANGED <<config_vars, call_vars, ids, shape_vars, stage_vars,
                   out_vars, ret, gen_vars, t_in>>

NextShift == ApplyTokenShift

SpecShift == InitShift /\ [][NextShift]_vars

(* ------------------------------- Spec ---------------------------------- *)

Next ==
    \/ Forward
    \/ Generate
    \/ GenerateStep
    \/ Finish

Spec == Init /\ [][Next]_vars

(* ------------------------------- claims -------------------------------- *)

\* a forward call is running or has ended
InForward == x # NoTensor

Ended == pc \in {"done", "raised"}

\* forward was called with flat ids of length L and flat targets that have
\* a column
FlatCall ==
    /\ InForward
    /\ ndim(ids_at_call) = 2
    /\ ndim(targets) = 2
    /\ targets.shape[2] >= 1

C2_ShiftedIds ==
    (FlatCall /\ pc = "check" /\ ids_at_call.shape[2] >= 1)
    => /\ ids.shape = ids_at_call.shape
       /\ ids.data =
            [i \in 1..ids_at_call.shape[2] |->
                IF i < ids_at_call.shape[2] THEN ids_at_call.data[i + 1]
                ELSE targets.data[Len(targets.data)]]

\* a generate call is running or has ended
InGenerate == seq # NoTensor

\* C3: generate with prime=None ends without an error and returns a tensor
\* of shape (batch, *max_seq_len), whose flattened length is the product of
\* max_seq_len.
C3_GenerateReturns ==
    (InGenerate /\ ~prime.given /\ Ended)
    => /\ pc = "done"
       /\ ret.kind = "tokens"
       /\ ret.shape = <<Batch>> \o max_seq_len
       /\ Len(ret.cells) = total_seq_len

\* the flat positions forward added as padding
PadPositions == (seq_len + 1)..(seq_len + padding)

\* C4: when forward padded a flat input, the logits it returns hold no
\* position that exists only because of the padding, with and without the
\* loss: the pad positions are cut off and nothing returned was computed
\* from a pad position.
C4_PaddingTrimmed ==
    (InForward /\ pc = "done" /\ flattened_dims /\ numel(ids) > 0)
    => /\ Len(ret.cells) <= seq_len + (IF return_loss THEN 1 ELSE 0)
       /\ \A j \in 1..Len(ret.cells) : ret.cells[j] \cap PadPositions = {}

\* forward was called with nested ids whose dimensions after the first are
\* max_seq_len[1:], and with targets of the same shape
NestedCall ==
    /\ InForward
    /\ stages > 1
    /\ ndim(ids_at_call) = stages + 1
    /\ Tail(Tail(ids_at_call.shape)) = Tail(max_seq_len)
    /\ targets.shape = ids_at_call.shape

\* C5: such a nested input raises when its first dimension is
\* max_seq_len[0] + 1, and forward completes when it is max_seq_len[0].
C5_NestedValidation ==
    (NestedCall /\ Ended)
    => /\ ids_at_call.shape[2] = max_seq_len[1] + 1 => pc = "raised"
       /\ ids_at_call.shape[2] = max_seq_len[1] => pc = "done"

\* C6: forward returns the pair (logits, loss) when return_loss=True and
\* the logits alone when return_loss=False, the empty input included.
C6_ReturnKind ==
    (InForward /\ pc = "done")
    => ret.kind = IF return_loss THEN "pair" ELSE "logits"

\* forward went on to its last step with return_loss=True
LossPath == InForward /\ return_loss /\ Ended /\ logits # <<>>

\* C7: cross_entropy gets as many predictions as labels, one per position
\* of the padded sequence; the positions that enter the loss are those
\* whose label is not pad_id, and no position forward added as padding is
\* among them.
C7_LossIgnoresPad ==
    LossPath
    => /\ pc = "done"
       /\ Len(preds) = Len(labels)
       /\ Len(labels) = reduce_mult(prec_dims)
       /\ flattened_dims => Len(labels) = seq_len + padding
       /\ scored = {j \in 1..Len(labels) : labels[j] # pad_id}
       /\ flattened_dims => scored \cap PadPositions = {}

\* C7 witness: a loss over a padded input with a caller's pad_id label
C7_Witness ==
    /\ LossPath
    /\ pc = "done"
    /\ padding > 0
    /\ \E j \in 1..seq_len : labels[j] = pad_id
    /\ scored # {}

\* C8: on the loss path prediction j stands against label j and was
\* computed from ids at flat positions before j only, so the id at position
\* k reaches no prediction with index <= k.
C8_Causal ==
    (LossPath /\ pc = "done")
    => /\ Len(preds) = Len(labels)
       /\ \A j \in 1..Len(preds) : \A k \in preds[j] : k < j

\* C8 witness: a loss of a model with several stages in which predictions
\* of a later patch read ids of an earlier one
C8_Witness ==
    /\ LossPath
    /\ pc = "done"
    /\ stages = MaxStages
    /\ Len(preds) > 2
    /\ 1 \in preds[Len(preds)]
    /\ (Len(preds) - 1) \in preds[Len(preds)]

\* a stage of the loop has just run
StageRan == pc \in {"stages", "logits"} /\ stage > 1

\* C9 (as claimed): a stage hands its projector the transformer output
\* without the start-token position, the positions at indices 1..L-1.
C9_DropsStart ==
    StageRan
    => \A g \in 1..Len(attended) :
          proj_in[g] = SubSeq(attended[g], 2, Len(attended[g]))

\* C9 (amended): a stage hands its projector the transformer output without
\* its last position, the positions at indices 0..L-2, the start-token
\* position among them, and each of them becomes max_seq_len[i+1]
\* positions of the next stage.
C9_DropsLast ==
    StageRan
    => /\ \A g \in 1..Len(attended) :
             proj_in[g] = SubSeq(attended[g], 1, Len(attended[g]) - 1)
       /\ stage <= stages =>
             /\ Len(prev_stage_tokens_repr) = Len(Flatten(proj_in))
             /\ \A q \in 1..Len(prev_stage_tokens_repr) :
                   Len(prev_stage_tokens_repr[q]) = max_seq_len[stage]

\* C9 witness: a stage with a next stage has handed over several positions
C9_Witness ==
    /\ StageRan
    /\ stage <= stages
    /\ Len(attended[1]) > 2
    /\ max_seq_len[stage] > 1

\* what the claim says of token_shift's result
ShiftedAsClaimed ==
    /\ pc = "done"
    /\ Len(t_out) = Len(t_in)
    /\ \A i \in 1..Len(t_in) :
          LET w == Len(t_in[i])
              h == (w + 1) \div 2
          IN  /\ Len(t_out[i]) = w
              /\ SubSeq(t_out[i], 1, h) = SubSeq(t_in[i], 1, h)
              /\ SubSeq(t_out[i], h + 1, w) =
                    IF i = 1 THEN [f \in 1..(w - h) |-> {}]
                    ELSE SubSeq(t_in[i - 1], h + 1, w)
    /\ \A n \in 1..Len(t_in) :
          \A u \in ShiftInputs :
             (Len(u) = Len(t_in) /\ SubSeq(u, 1, n) = SubSeq(t_in, 1, n)
              /\ chunk_unpacks(u))
             => SubSeq(token_shift(u), 1, n) = SubSeq(t_out, 1, n)

\* C10 (as claimed): token_shift of n >= 1 positions returns as many
\* positions of the same width, the first half of the features unchanged,
\* the second half taken from the position before, zeros at the first
\* position, and no position of the result depends on a later input position.
C10_TokenShift == pc # "idle" => ShiftedAsClaimed

\* C10 (amended): the same for positions of at least two features, the
\* halves being the two chunks of chunk(2): the first ceil(w/2) features
\* and the rest.
C10_TokenShiftWide ==
    (pc # "idle" /\ Len(t_in[1]) >= 2) => ShiftedAsClaimed

\* C10 witness: token_shift has run on several positions of odd width
C10_Witness ==
    /\ pc = "done"
    /\ Len(t_in) = MaxN
    /\ Len(t_in[1]) = 3
    /\ t_in[1][3] = {1}
    /\ t_out[2][3] = {1}

\* C11: forward leaves the caller's ids and targets as they were when it
\* was called, a targets tensor that shares the storage of ids included,
\* so a second call with the same arguments goes on with the same ids as
\* the first.
C11_CallerTensorsUnchanged ==
    InForward
    => /\ x = ids_at_call
       /\ targets = targets_at_call
       /\ (calls > 1 /\ pc = "check") => ids = first_ids

====
